---- MODULE Spec2Model ----
(***************************************************************************)
(* A model of the notes application: the note store (src/storage.rs,       *)
(* src/models.rs), the console front-end (src/main.rs) and the HTTP        *)
(* handlers (src/web.rs), all working on one Arc<Mutex<NotesManager>>.     *)
(*                                                                         *)
(* Strings are sequences of one-character strings.  An Option<T> is a      *)
(* sequence of length at most one: <<>> is None and <<v>> is Some(v).      *)
(* A timestamp is the reading of the local wall clock it was formatted     *)
(* from.  An id is the number of the Uuid::new_v4 call that produced it.   *)
(* The file is a sequence of JSON tokens: "[", one token per note object,  *)
(* "]"; a BufWriter buffer holds BufCap tokens.                            *)
(***************************************************************************)
EXTENDS Integers, Sequences, FiniteSets, TLC

\* -------------------------------------------------------------- bounds
\* Mutating requests accepted in one run of the program.
MaxMuts == 1

\* Largest reading of the wall clock.
MaxClock == 1

\* Capacity of the BufWriter that save_notes wraps around the file, in tokens.
BufCap == 2

\* ----------------------------------------------------------- processes
Console == "console"

Http == {"h1", "h2"}

Procs == {Console} \cup Http

\* A program that owns a NotesManager and calls its methods directly.
Api == "api"

Callers == Procs \cup {Api}

None == "none"

\* ------------------------------------------------------------- strings
Lower(c) ==
    CASE c = "A" -> "a"
      [] c = "B" -> "b"
      [] OTHER -> c

to_lowercase(s) == [i \in 1..Len(s) |-> Lower(s[i])]

contains(hay, needle) ==
    \E i \in 0..(Len(hay) - Len(needle)) :
        SubSeq(hay, i + 1, i + Len(needle)) = needle

\* ---------------------------------------------------------------- Note
Note(id, title, content, created_at, updated_at, tags) ==
    [id |-> id, title |-> title, content |-> content,
     created_at |-> created_at, updated_at |-> updated_at, tags |-> tags]

\* Local::now().to_rfc3339() at wall-clock reading now.
Note_new(title, content, tags, uuid, now) ==
    Note(uuid, title, content, now, now, tags)

\* An update that leaves updated_at alone when no field is provided.
Note_update_StampIfChanged(n, title, content, tags, now) ==
    [n EXCEPT !.title = IF title # <<>> THEN title[1] ELSE @,
              !.content = IF content # <<>> THEN content[1] ELSE @,
              !.tags = IF tags # <<>> THEN tags[1] ELSE @,
              !.updated_at = IF title = <<>> /\ content = <<>> /\ tags = <<>>
                             THEN @ ELSE now]

Note_update(n, title, content, tags, now) ==
    [n EXCEPT !.title = IF title # <<>> THEN title[1] ELSE @,
              !.content = IF content # <<>> THEN content[1] ELSE @,
              !.tags = IF tags # <<>> THEN tags[1] ELSE @,
              !.updated_at = now]

\* --------------------------------------------------- the JSON document
LBracket == [t |-> "["]

RBracket == [t |-> "]"]

Junk == [t |-> "junk"]

Obj(n) == [t |-> "obj", v |-> n]

NoFile == [exists |-> FALSE, data |-> <<>>]

FileOf(data) == [exists |-> TRUE, data |-> data]

\* serde_json::to_writer_pretty(writer, &self.notes): the tokens handed to the writer.
to_writer_pretty(ns) ==
    <<LBracket>> \o [i \in 1..Len(ns) |-> Obj(ns[i])] \o <<RBracket>>

\* serde_json::from_reader: the notes of a complete array document, or an error.
from_reader(data) ==
    IF /\ Len(data) >= 2
       /\ data[1] = LBracket
       /\ data[Len(data)] = RBracket
       /\ \A i \in 2..(Len(data) - 1) : data[i].t = "obj"
    THEN [ok |-> TRUE, val |-> [i \in 1..(Len(data) - 2) |-> data[i + 1].v]]
    ELSE [ok |-> FALSE, val |-> <<>>]

load_notes(f) ==
    IF ~f.exists THEN <<>>
    ELSE IF from_reader(f.data).ok THEN from_reader(f.data).val
    ELSE <<>>

\* ---------------------------------------------------------- wall clock
\* What Local::now() may read.  The local wall clock is not monotonic: between two
\* calls it advances, or is set back (a manual change, a time-synchronisation step).
Readings == 0..MaxClock

\* ------------------------------------------------ NotesManager queries
\* 1-based position of the first note with this id, 0 when there is none.
position(ns, id) ==
    IF \E i \in 1..Len(ns) : ns[i].id = id
    THEN CHOOSE i \in 1..Len(ns) :
            ns[i].id = id /\ \A j \in 1..(i - 1) : ns[j].id # id
    ELSE 0

list_notes(ns) == ns

get_note(ns, id) ==
    IF position(ns, id) = 0 THEN <<>> ELSE <<ns[position(ns, id)]>>

\* index is zero-based, as in the code.
get_note_by_index(ns, index) ==
    IF index < Len(ns) THEN <<ns[index + 1]>> ELSE <<>>

notes_count(ns) == Len(ns)

NoteMatches(n, query_lower) ==
    \/ contains(to_lowercase(n.title), query_lower)
    \/ contains(to_lowercase(n.content), query_lower)
    \/ \E k \in 1..Len(n.tags) : contains(to_lowercase(n.tags[k]), query_lower)

\* A search that folds the notes but not the query.
search_notes_QueryNotFolded(ns, query) ==
    SelectSeq(ns, LAMBDA n : NoteMatches(n, query))

search_notes(ns, query) ==
    SelectSeq(ns, LAMBDA n : NoteMatches(n, to_lowercase(query)))

\* ---------------------------------------------- NotesManager mutations
\* An insertion at the front instead of the end.
push_front(ns, n) == <<n>> \o ns

push(ns, n) == Append(ns, n)

\* A removal that stops at the first note with this id.
retain_FirstOnly(ns, id) ==
    IF position(ns, id) = 0
    THEN ns
    ELSE SubSeq(ns, 1, position(ns, id) - 1) \o SubSeq(ns, position(ns, id) + 1, Len(ns))

retain(ns, id) == SelectSeq(ns, LAMBDA n : n.id # id)

\* A removal that takes the index as one-based.
remove_OneBased(ns, index) ==
    SubSeq(ns, 1, index - 1) \o SubSeq(ns, index + 1, Len(ns))

\* Vec::remove(index), index zero-based and in range.
remove(ns, index) ==
    SubSeq(ns, 1, index) \o SubSeq(ns, index + 2, Len(ns))

\* self.notes[index].update(title, content, tags) at the first note with this id.
update_at(ns, id, title, content, tags, now) ==
    [ns EXCEPT ![position(ns, id)] = Note_update(@, title, content, tags, now)]

\* -------------------------------------------------------------- inputs
T_A == <<"A">>

T_ab == <<"a", "b">>

\* The notes a client asks to create: (title, content, tags).  The console refuses
\* an empty title before it calls the store.
NewNotes == { <<T_A, T_ab, <<T_A, T_A>> >>, <<<<>>, <<>>, <<>> >> }

\* The values an update may carry for each field.
NewTitles == {<<>>, T_ab}

NewContents == {<<>>}

NewTags == {<<>>}

Queries == {<<>>, <<"a">>, <<"B">>}

\* Option<T> over a set of values.
Opt(S) == {<<>>} \cup {<<v>> : v \in S}

\* A note as it may stand in the file when the program starts.
FileNote(id, title) == Note(id, title, T_ab, 1, 1, <<T_A>>)

InitFiles ==
    { NoFile,
      FileOf(<<Junk>>),
      FileOf(to_writer_pretty(<<>>)),
      FileOf(to_writer_pretty(<<FileNote(1, T_A), FileNote(2, T_ab)>>)),
      FileOf(to_writer_pretty(<<FileNote(1, T_A), FileNote(1, T_ab)>>)) }

\* Ids already in use when the program starts; Uuid::new_v4 never returns one of them.
FirstUuid == 3

VARIABLES
    phase,      \* main: "cli", "ask" (the y/n question), "web", "exited"
    pc,         \* per process: its position in the handler
    op,         \* per process: the handler it runs
    arg,        \* per process: the note number typed at the console (update);
                \* for Api, the arguments of the call
    res,        \* per process: what the store call returned
    wr,         \* per process: tokens of the document not yet written to the file
    lock,       \* the Mutex: its holder or None
    notes,      \* NotesManager.notes
    file,       \* the file at storage_path
    clock,      \* the local wall clock: its last reading
    uuid,       \* the next value of Uuid::new_v4
    muts,       \* mutating requests accepted so far
    snap,       \* history: notes when the running store call began
    prevDoc,    \* history: the file when the running store call began
    nCreateOk,  \* history: add_note calls that returned Ok
    nDeleteOk,  \* history: delete calls that returned Ok(true) / Ok(())
    startedEmpty \* history: the store was empty after construction

vars == <<phase, pc, op, arg, res, wr, lock, notes, file, clock, uuid, muts,
          snap, prevDoc, nCreateOk, nDeleteOk, startedEmpty>>

NoRes == [tag |-> None, val |-> <<>>]

\* NotesManager::new(path): the collection is what load_notes makes of the file.
NotesManager_new ==
    /\ pc = [p \in Callers |-> "idle"]
    /\ op = [p \in Callers |-> None]
    /\ arg = [p \in Callers |-> 0]
    /\ res = [p \in Callers |-> NoRes]
    /\ wr = [p \in Callers |-> <<>>]
    /\ lock = None
    /\ file \in InitFiles
    /\ notes = load_notes(file)
    /\ clock = 1
    /\ uuid = FirstUuid
    /\ muts = 0
    /\ snap = <<>>
    /\ prevDoc = NoFile
    /\ nCreateOk = 0
    /\ nDeleteOk = 0
    /\ startedEmpty = (load_notes(file) = <<>>)

\* main: the manager is built, then cli_mode or start_web_server runs.
Init ==
    /\ phase \in {"cli", "web"}
    /\ NotesManager_new

\* ------------------------------------------------------------ handlers
CliOps == {"add_note", "list_notes", "view_note", "search_notes", "update_note", "delete_note"}

\* The services start_web_server registers on the App.
Registered ==
    {"index", "get_notes", "get_note", "create_note", "update_note", "delete_note",
     "search_notes", "health_check"}

\* The registered services that work on the store.
HttpOps == Registered \ {"index", "health_check"}

\* The handler whose route attribute matches the request line.
Handler(req) ==
    CASE req = "GET /" -> "index"
      [] req = "GET /api/notes" -> "get_notes"
      [] req = "GET /api/notes/{id}" -> "get_note"
      [] req = "POST /api/notes" -> "create_note"
      [] req = "PUT /api/notes/{id}" -> "update_note"
      [] req = "DELETE /api/notes/{id}" -> "delete_note"
      [] req = "GET /api/notes/search/{query}" -> "search_notes"
      [] req = "GET /health" -> "health_check"
      [] req = "GET /api/stats" -> "get_stats"
      [] OTHER -> None

\* The App hands a request to the registered service whose route matches it; with
\* none, its default service answers 404 Not Found.
Dispatch(req) == IF Handler(req) \in Registered THEN Handler(req) ELSE "NotFound"

\* The data of the get_stats handler's answer.
get_stats(ns) ==
    [total_notes |-> Len(list_notes(ns)),
     total_tags |-> Cardinality(UNION {{ns[i].tags[k] : k \in 1..Len(ns[i].tags)} :
                                            i \in 1..Len(ns)})]

\* What a client gets for GET /api/stats.
StatsResponse ==
    IF Dispatch("GET /api/stats") = "get_stats"
    THEN [status |-> 200, success |-> TRUE, data |-> get_stats(notes)]
    ELSE [status |-> 404, success |-> FALSE, data |-> <<>>]

MutOps == {"add_note", "create_note", "update_note", "delete_note", "delete_note_by_index"}

\* The NotesManager method a handler ends up calling.
StoreMethod(p) ==
    CASE op[p] \in {"add_note", "create_note"} -> "add_note"
      [] op[p] = "update_note" -> "update_note"
      [] op[p] = "delete_note" /\ p = Console -> "delete_note_by_index"
      [] op[p] = "delete_note" /\ p # Console -> "delete_note"
      [] OTHER -> op[p]

\* What the method returns once save_notes has returned Ok.
OkTag(p) ==
    CASE StoreMethod(p) = "add_note" -> "Ok"
      [] StoreMethod(p) = "update_note" -> "OkSome"
      [] StoreMethod(p) = "delete_note" -> "OkTrue"
      [] OTHER -> "Ok"

\* Ids a client may name: every id in use so far and the ones of InitFiles.
Ids == 1..(uuid - 1)

\* Note numbers a console user may type (one-based; 0 and count + 1 are invalid).
Numbers == 0..(Len(notes) + 1)

\* A lock that lets a second caller in.
MutexAvailable_NoExclusion == TRUE

\* manager.lock() returns only when no guard is alive.
MutexAvailable == lock = None

\* A handler that keeps the guard alive when the store call failed.
DropGuard_LeakOnErr(p) == IF res[p].tag = "Err" THEN p ELSE None

\* The MutexGuard `mgr` is dropped when the handler returns.
DropGuard(p) == None

\* ------------------------------------------------------- main, cli_mode
\* cli_mode: a menu choice "1".."6"; list_notes asks nothing more.
CliChoice(c) ==
    /\ phase = "cli"
    /\ pc[Console] = "idle"
    /\ c \in MutOps => muts < MaxMuts
    /\ pc' = [pc EXCEPT ![Console] = IF c = "list_notes" THEN "wait" ELSE "input"]
    /\ op' = [op EXCEPT ![Console] = c]
    /\ muts' = IF c \in MutOps THEN muts + 1 ELSE muts
    /\ UNCHANGED <<phase, arg, res, wr, lock, notes, file, clock, uuid,
                   snap, prevDoc, nCreateOk, nDeleteOk, startedEmpty>>

\* get_input before the lock is taken: a title, a note number or a query was typed.
CliInputOk ==
    /\ pc[Console] = "input"
    /\ pc' = [pc EXCEPT ![Console] = "wait"]
    /\ UNCHANGED <<phase, op, arg, res, wr, lock, notes, file, clock, uuid, muts,
                   snap, prevDoc, nCreateOk, nDeleteOk, startedEmpty>>

\* An empty title, an empty query or something that is no number: back to the menu.
CliInputRejected ==
    /\ pc[Console] = "input"
    /\ pc' = [pc EXCEPT ![Console] = "idle"]
    /\ op' = [op EXCEPT ![Console] = None]
    /\ UNCHANGED <<phase, arg, res, wr, lock, notes, file, clock, uuid, muts,
                   snap, prevDoc, nCreateOk, nDeleteOk, startedEmpty>>

\* Choice "7": cli_mode returns and main asks whether to start the web interface.
CliStartWeb ==
    /\ phase = "cli"
    /\ pc[Console] = "idle"
    /\ phase' = "ask"
    /\ UNCHANGED <<pc, op, arg, res, wr, lock, notes, file, clock, uuid, muts,
                   snap, prevDoc, nCreateOk, nDeleteOk, startedEmpty>>

\* Choice "8": std::process::exit(0).
CliExit ==
    /\ phase = "cli"
    /\ pc[Console] = "idle"
    /\ phase' = "exited"
    /\ UNCHANGED <<pc, op, arg, res, wr, lock, notes, file, clock, uuid, muts,
                   snap, prevDoc, nCreateOk, nDeleteOk, startedEmpty>>

AskYes ==
    /\ phase = "ask"
    /\ phase' = "web"
    /\ UNCHANGED <<pc, op, arg, res, wr, lock, notes, file, clock, uuid, muts,
                   snap, prevDoc, nCreateOk, nDeleteOk, startedEmpty>>

AskNo ==
    /\ phase = "ask"
    /\ phase' = "exited"
    /\ UNCHANGED <<pc, op, arg, res, wr, lock, notes, file, clock, uuid, muts,
                   snap, prevDoc, nCreateOk, nDeleteOk, startedEmpty>>

\* ------------------------------------------------------------ web server
\* A server spawned when the program starts: requests arrive while cli_mode runs.
HttpRequest_ServerSpawned(h) ==
    /\ phase \in {"cli", "web"}
    /\ pc[h] = "idle"
    /\ pc' = [pc EXCEPT ![h] = "wait"]
    /\ UNCHANGED <<phase, op, arg, res, wr, lock, notes, file, clock, uuid, muts,
                   snap, prevDoc, nCreateOk, nDeleteOk, startedEmpty>>

\* A request for a route that uses the store reaches a worker, whose handler starts
\* by asking for the lock.
HttpRequest(h) ==
    /\ phase = "web"
    /\ pc[h] = "idle"
    /\ pc' = [pc EXCEPT ![h] = "wait"]
    /\ UNCHANGED <<phase, op, arg, res, wr, lock, notes, file, clock, uuid, muts,
                   snap, prevDoc, nCreateOk, nDeleteOk, startedEmpty>>

\* The handler the App routes the request to.  Which one it is plays no part before
\* the handler holds the lock, so it is drawn here.
HttpRoute(h, o) ==
    /\ h \in Http
    /\ pc[h] = "locked"
    /\ op[h] = None
    /\ o \in MutOps => muts < MaxMuts
    /\ op' = [op EXCEPT ![h] = o]
    /\ muts' = IF o \in MutOps THEN muts + 1 ELSE muts
    /\ UNCHANGED <<phase, pc, arg, res, wr, lock, notes, file, clock, uuid,
                   snap, prevDoc, nCreateOk, nDeleteOk, startedEmpty>>

\* ----------------------------------------------------------------- mutex
\* let mgr = manager.lock().unwrap();
Lock(p) ==
    /\ pc[p] = "wait"
    /\ MutexAvailable
    /\ lock' = p
    /\ pc' = [pc EXCEPT ![p] = "locked"]
    /\ UNCHANGED <<phase, op, arg, res, wr, notes, file, clock, uuid, muts,
                   snap, prevDoc, nCreateOk, nDeleteOk, startedEmpty>>

\* The handler returns: the guard is dropped.
Unlock(p) ==
    /\ pc[p] = "ret"
    /\ lock' = DropGuard(p)
    /\ pc' = [pc EXCEPT ![p] = "idle"]
    /\ op' = [op EXCEPT ![p] = None]
    /\ arg' = [arg EXCEPT ![p] = 0]
    /\ res' = [res EXCEPT ![p] = NoRes]
    /\ snap' = <<>>
    /\ prevDoc' = NoFile
    /\ UNCHANGED <<phase, wr, notes, file, clock, uuid, muts,
                   nCreateOk, nDeleteOk, startedEmpty>>

\* ------------------------------------------------------- the store calls
\* A method that rewrites the file before it returns, whatever it did.
Return_AfterSave(p, tag, val) ==
    /\ pc' = [pc EXCEPT ![p] = "mkdir"]
    /\ res' = [res EXCEPT ![p] = [tag |-> None, val |-> val]]
    /\ snap' = notes
    /\ prevDoc' = file
    /\ UNCHANGED <<phase, op, arg, wr, lock, notes, file, clock, uuid, muts,
                   nCreateOk, nDeleteOk, startedEmpty>>

\* The method returns without having called save_notes.
Return(p, tag, val) ==
    /\ pc' = [pc EXCEPT ![p] = "ret"]
    /\ res' = [res EXCEPT ![p] = [tag |-> tag, val |-> val]]
    /\ snap' = notes
    /\ prevDoc' = file
    /\ UNCHANGED <<phase, op, arg, wr, lock, notes, file, clock, uuid, muts,
                   nCreateOk, nDeleteOk, startedEmpty>>

\* The method has changed self.notes to ns and calls self.save_notes(); val is what
\* it returns if the save succeeds.
Mutate(p, ns, val) ==
    /\ notes' = ns
    /\ snap' = notes
    /\ prevDoc' = file
    /\ res' = [res EXCEPT ![p] = [tag |-> None, val |-> val]]
    /\ pc' = [pc EXCEPT ![p] = "mkdir"]
    /\ UNCHANGED <<phase, op, wr, lock, file, muts,
                   nCreateOk, nDeleteOk, startedEmpty>>

\* An add_note that stores one note and hands back another, built anew.
add_note_ReturnsAnother(p, title, content, tags, now) ==
    LET note == Note_new(title, content, tags, uuid, now)
    IN  /\ Mutate(p, push(notes, note), <<Note_new(title, content, tags, uuid + 1, now)>>)
        /\ uuid' = uuid + 2
        /\ clock' = now
        /\ UNCHANGED arg

\* now: what Local::now() reads during the call.
add_note(p, title, content, tags, now) ==
    LET note == Note_new(title, content, tags, uuid, now)
    IN  /\ Mutate(p, push(notes, note), <<note>>)
        /\ uuid' = uuid + 1
        /\ clock' = now
        /\ UNCHANGED arg

update_note(p, id, title, content, tags, now) ==
    IF position(notes, id) # 0
    THEN LET ns == update_at(notes, id, title, content, tags, now)
         IN  /\ Mutate(p, ns, <<ns[position(notes, id)]>>)
             /\ clock' = now
             /\ UNCHANGED <<arg, uuid>>
    ELSE Return(p, "OkNone", <<>>)

\* A delete_note that rewrites the file whether or not a note was removed.
delete_note_AlwaysSaves(p, id) ==
    Mutate(p, retain(notes, id), <<>>) /\ UNCHANGED <<arg, uuid, clock>>

delete_note(p, id) ==
    LET ns == retain(notes, id)
    IN  IF Len(ns) < Len(notes)
        THEN Mutate(p, ns, <<>>) /\ UNCHANGED <<arg, uuid, clock>>
        ELSE Return(p, "OkFalse", <<>>)

delete_note_by_index(p, index) ==
    IF index < Len(notes)
    THEN Mutate(p, remove(notes, index), <<>>) /\ UNCHANGED <<arg, uuid, clock>>
    ELSE Return(p, "ErrInvalidInput", <<>>)

\* main.rs add_note after its prompts (the title is not empty) and web.rs create_note.
AddNote(p) ==
    /\ pc[p] = "locked"
    /\ StoreMethod(p) = "add_note"
    /\ \E new \in NewNotes, now \in Readings :
        /\ p = Console => new[1] # <<>>
        /\ add_note(p, new[1], new[2], new[3], now)

\* main.rs list_notes and web.rs get_notes.
ListNotes(p) ==
    /\ pc[p] = "locked"
    /\ op[p] \in {"list_notes", "get_notes"}
    /\ Return(p, "Ok", list_notes(notes))

\* web.rs get_note.
GetNote(h) ==
    /\ h \in Http
    /\ pc[h] = "locked"
    /\ op[h] = "get_note"
    /\ \E id \in Ids :
        Return(h, IF get_note(notes, id) = <<>> THEN "NotFound" ELSE "Ok",
               get_note(notes, id))

\* main.rs view_note, with the note number that was typed.
ViewNote ==
    /\ pc[Console] = "locked"
    /\ op[Console] = "view_note"
    /\ \E number \in Numbers :
        IF number > 0 /\ number <= notes_count(notes)
        THEN Return(Console, "Ok", get_note_by_index(notes, number - 1))
        ELSE Return(Console, "Invalid", <<>>)

\* main.rs search_notes (the query is not empty) and web.rs search_notes.
SearchNotes(p) ==
    /\ pc[p] = "locked"
    /\ op[p] = "search_notes"
    /\ \E query \in Queries :
        /\ p = Console => query # <<>>
        /\ Return(p, "Ok", search_notes(notes, query))

\* web.rs update_note.
HttpUpdate(h) ==
    /\ h \in Http
    /\ pc[h] = "locked"
    /\ op[h] = "update_note"
    /\ \E id \in Ids, title \in Opt(NewTitles), content \in Opt(NewContents),
          tags \in Opt(NewTags), now \in Readings :
        update_note(h, id, title, content, tags, now)

\* main.rs update_note, from the lock to the first prompt.
CliUpdateCheck ==
    /\ pc[Console] = "locked"
    /\ op[Console] = "update_note"
    /\ \E number \in Numbers :
        IF number > 0 /\ number <= notes_count(notes)
        THEN /\ pc' = [pc EXCEPT ![Console] = "prompt"]
             /\ arg' = [arg EXCEPT ![Console] = number]
             /\ UNCHANGED <<phase, op, res, wr, lock, notes, file, clock, uuid, muts,
                            snap, prevDoc, nCreateOk, nDeleteOk, startedEmpty>>
        ELSE Return(Console, "Invalid", <<>>)

\* main.rs update_note: the three get_input calls made with the guard alive, then
\* the store call.  An empty title line or tags line keeps the field; a content of
\* one empty line or a tags line "," replaces the field by an empty value.
CliUpdatePrompt ==
    /\ pc[Console] = "prompt"
    /\ \E title \in Opt(NewTitles \ {<<>>}), content \in Opt(NewContents),
          tags \in Opt(NewTags), now \in Readings :
        update_note(Console, notes[arg[Console]].id, title, content, tags, now)

\* web.rs delete_note.
HttpDelete(h) ==
    /\ h \in Http
    /\ pc[h] = "locked"
    /\ op[h] = "delete_note"
    /\ \E id \in Ids : delete_note(h, id)

\* main.rs delete_note, with the note number that was typed.
CliDelete ==
    /\ pc[Console] = "locked"
    /\ op[Console] = "delete_note"
    /\ \E number \in Numbers :
        IF number > 0 /\ number <= notes_count(notes)
        THEN delete_note_by_index(Console, number - 1)
        ELSE Return(Console, "Invalid", <<>>)

\* ------------------------------------------------------------ save_notes
\* A step of save_notes fails: `?` returns the error to the handler.
SaveErr(p) ==
    /\ pc' = [pc EXCEPT ![p] = "ret"]
    /\ res' = [res EXCEPT ![p] = [tag |-> "Err", val |-> <<>>]]
    /\ wr' = [wr EXCEPT ![p] = <<>>]
    /\ UNCHANGED <<phase, op, arg, lock, notes, clock, uuid, muts,
                   snap, prevDoc, nCreateOk, nDeleteOk, startedEmpty>>

\* fs::create_dir_all(parent)?
SaveMkdir(p) ==
    /\ pc[p] = "mkdir"
    /\ \/ /\ pc' = [pc EXCEPT ![p] = "open"]
          /\ UNCHANGED <<phase, op, arg, res, wr, lock, notes, file, clock, uuid, muts,
                         snap, prevDoc, nCreateOk, nDeleteOk, startedEmpty>>
       \/ SaveErr(p) /\ file' = file

\* OpenOptions::new().write(true).create(true).truncate(true).open(path)?
SaveOpen(p) ==
    /\ pc[p] = "open"
    /\ \/ /\ file' = FileOf(<<>>)
          /\ wr' = [wr EXCEPT ![p] = to_writer_pretty(notes)]
          /\ pc' = [pc EXCEPT ![p] = "write"]
          /\ UNCHANGED <<phase, op, arg, res, lock, notes, clock, uuid, muts,
                         snap, prevDoc, nCreateOk, nDeleteOk, startedEmpty>>
       \/ SaveErr(p) /\ file' = file

\* to_writer_pretty fills the BufWriter; a full buffer is written to the file, and
\* an error of that write is returned.  The BufWriter is dropped on that path too:
\* its Drop tries the write once more, which fails again or succeeds.
SaveWrite(p) ==
    /\ pc[p] = "write"
    /\ Len(wr[p]) > BufCap
    /\ \/ /\ file' = FileOf(file.data \o SubSeq(wr[p], 1, BufCap))
          /\ wr' = [wr EXCEPT ![p] = SubSeq(@, BufCap + 1, Len(@))]
          /\ UNCHANGED <<phase, pc, op, arg, res, lock, notes, clock, uuid, muts,
                         snap, prevDoc, nCreateOk, nDeleteOk, startedEmpty>>
       \/ SaveErr(p) /\ file' = file
       \/ SaveErr(p) /\ file' = FileOf(file.data \o SubSeq(wr[p], 1, BufCap))

\* to_writer_pretty returns Ok with the last tokens still in the buffer; the
\* BufWriter is dropped, and its Drop writes them and discards the error if that
\* write fails.  save_notes returns Ok(()) either way.
SaveDrop(p) ==
    /\ pc[p] = "write"
    /\ Len(wr[p]) <= BufCap
    /\ \/ file' = FileOf(file.data \o wr[p])
       \/ file' = file
    /\ wr' = [wr EXCEPT ![p] = <<>>]
    /\ pc' = [pc EXCEPT ![p] = "ret"]
    /\ res' = [res EXCEPT ![p] = [tag |-> OkTag(p), val |-> @.val]]
    /\ nCreateOk' = IF StoreMethod(p) = "add_note" THEN nCreateOk + 1 ELSE nCreateOk
    /\ nDeleteOk' = IF StoreMethod(p) \in {"delete_note", "delete_note_by_index"}
                    THEN nDeleteOk + 1 ELSE nDeleteOk
    /\ UNCHANGED <<phase, op, arg, lock, notes, clock, uuid, muts,
                   snap, prevDoc, startedEmpty>>

\* After std::process::exit or the return of main (phase "exited") no action is
\* enabled: the console actions need phase "cli" or a handler in progress, the
\* workers need phase "web".
Next ==
    \/ \E c \in CliOps : CliChoice(c)
    \/ CliInputOk
    \/ CliInputRejected
    \/ CliStartWeb
    \/ CliExit
    \/ AskYes
    \/ AskNo
    \/ \E h \in Http : HttpRequest(h)
    \/ \E h \in Http, o \in HttpOps : HttpRoute(h, o)
    \/ \E p \in Procs : Lock(p)
    \/ \E p \in Procs : Unlock(p)
    \/ \E p \in Procs : AddNote(p)
    \/ \E p \in Procs : ListNotes(p)
    \/ \E h \in Http : GetNote(h)
    \/ ViewNote
    \/ \E p \in Procs : SearchNotes(p)
    \/ \E h \in Http : HttpUpdate(h)
    \/ CliUpdateCheck
    \/ CliUpdatePrompt
    \/ \E h \in Http : HttpDelete(h)
    \/ CliDelete
    \/ \E p \in Procs : SaveMkdir(p)
    \/ \E p \in Procs : SaveOpen(p)
    \/ \E p \in Procs : SaveWrite(p)
    \/ \E p \in Procs : SaveDrop(p)

Spec == Init /\ [][Next]_vars

\* ------------------------------------------- the store called directly
\* NotesManager is a public type: a program may own one and call any of its methods
\* with any argument, with no front-end in between.  Its calls follow one another
\* (the methods that change the store take &mut self).
StoreMethods ==
    {"add_note", "update_note", "delete_note", "delete_note_by_index",
     "list_notes", "get_note", "get_note_by_index", "search_notes", "notes_count"}

\* Zero-based indexes a caller may pass: count and count + 1 are out of range.
Indexes == 0..(Len(notes) + 1)

\* The arguments a call of method m may carry.
ApiArgs(m) ==
    CASE m = "add_note" ->
            {[title |-> n[1], content |-> n[2], tags |-> n[3]] : n \in NewNotes}
      [] m = "update_note" ->
            {[id |-> i, title |-> t, content |-> c, tags |-> g] :
                i \in Ids, t \in Opt(NewTitles), c \in Opt(NewContents), g \in Opt(NewTags)}
      [] m \in {"delete_note", "get_note"} -> {[id |-> i] : i \in Ids}
      [] m \in {"delete_note_by_index", "get_note_by_index"} ->
            {[index |-> i] : i \in Indexes}
      [] m = "search_notes" -> {[query |-> q] : q \in Queries}
      [] OTHER -> {[none |-> 0]}

StoreInit ==
    /\ phase = "lib"
    /\ NotesManager_new

\* The caller is about to call method m with arguments a.
ApiCall(m) ==
    /\ phase = "lib"
    /\ pc[Api] = "idle"
    /\ m \in MutOps => muts < MaxMuts
    /\ \E a \in ApiArgs(m) : arg' = [arg EXCEPT ![Api] = a]
    /\ op' = [op EXCEPT ![Api] = m]
    /\ pc' = [pc EXCEPT ![Api] = "call"]
    /\ muts' = IF m \in MutOps THEN muts + 1 ELSE muts
    /\ UNCHANGED <<phase, res, wr, lock, notes, file, clock, uuid,
                   snap, prevDoc, nCreateOk, nDeleteOk, startedEmpty>>

ApiAddNote ==
    /\ pc[Api] = "call"
    /\ op[Api] = "add_note"
    /\ \E now \in Readings :
          add_note(Api, arg[Api].title, arg[Api].content, arg[Api].tags, now)

ApiUpdateNote ==
    /\ pc[Api] = "call"
    /\ op[Api] = "update_note"
    /\ \E now \in Readings :
          update_note(Api, arg[Api].id, arg[Api].title, arg[Api].content,
                      arg[Api].tags, now)

ApiDeleteNote ==
    /\ pc[Api] = "call"
    /\ op[Api] = "delete_note"
    /\ delete_note(Api, arg[Api].id)

ApiDeleteNoteByIndex ==
    /\ pc[Api] = "call"
    /\ op[Api] = "delete_note_by_index"
    /\ delete_note_by_index(Api, arg[Api].index)

\* The methods that take &self.
ApiRead ==
    /\ pc[Api] = "call"
    /\ op[Api] \in {"list_notes", "get_note", "get_note_by_index", "search_notes",
                    "notes_count"}
    /\ Return(Api, "Ok",
              CASE op[Api] = "list_notes" -> list_notes(notes)
                [] op[Api] = "get_note" -> get_note(notes, arg[Api].id)
                [] op[Api] = "get_note_by_index" ->
                        get_note_by_index(notes, arg[Api].index)
                [] op[Api] = "search_notes" -> search_notes(notes, arg[Api].query)
                [] op[Api] = "notes_count" -> <<notes_count(notes)>>)

\* The caller has the result and is free to call again.
ApiDone ==
    /\ pc[Api] = "ret"
    /\ pc' = [pc EXCEPT ![Api] = "idle"]
    /\ op' = [op EXCEPT ![Api] = None]
    /\ arg' = [arg EXCEPT ![Api] = 0]
    /\ res' = [res EXCEPT ![Api] = NoRes]
    /\ snap' = <<>>
    /\ prevDoc' = NoFile
    /\ UNCHANGED <<phase, wr, lock, notes, file, clock, uuid, muts,
                   nCreateOk, nDeleteOk, startedEmpty>>

StoreNext ==
    \/ \E m \in StoreMethods : ApiCall(m)
    \/ ApiAddNote
    \/ ApiUpdateNote
    \/ ApiDeleteNote
    \/ ApiDeleteNoteByIndex
    \/ ApiRead
    \/ ApiDone
    \/ SaveMkdir(Api)
    \/ SaveOpen(Api)
    \/ SaveWrite(Api)
    \/ SaveDrop(Api)

StoreSpec == StoreInit /\ [][StoreNext]_vars

\* ============================================================ properties
\* The process is inside a NotesManager method that has called save_notes.
Saving(p) == pc[p] \in {"mkdir", "open", "write"}

\* The process is between manager.lock() and the drop of the guard.
Holding(p) == pc[p] \in {"locked", "prompt", "mkdir", "open", "write", "ret"}

\* A mutating method has returned to the handler after calling save_notes.
Saved(p) ==
    /\ pc[p] = "ret"
    /\ op[p] \in MutOps
    /\ res[p].tag \in {"Ok", "OkSome", "OkTrue", "Err"}

Succeeded(p) ==
    /\ pc[p] = "ret"
    /\ op[p] \in MutOps
    /\ res[p].tag \in {"Ok", "OkSome", "OkTrue"}

\* C1: when the rewrite of the file fails, the mutating operation reports an error
\* and the collection is what it was before the operation started.
C1_FailedSaveRollsBack ==
    \A p \in Procs : (Saved(p) /\ res[p].tag = "Err") => notes = snap

\* C2: when a mutating operation returns success, the file decodes to exactly the
\* in-memory collection, whatever the steps of save_notes did.
C2_SuccessMeansPersisted ==
    \A p \in Procs :
        Succeeded(p) =>
            /\ file.exists
            /\ from_reader(file.data) = [ok |-> TRUE, val |-> notes]

\* C3: on a store that started empty, between calls, notes_count() is the number of
\* creates that reported success minus the number of deletes that reported success.
C3_CountIsCreatesMinusDeletes ==
    (startedEmpty /\ \A p \in Procs : ~Saving(p)) =>
        notes_count(notes) = nCreateOk - nDeleteOk

\* C4: no two notes of the collection have the same id, from the state
\* NotesManager::new produces onwards.
C4_IdsUnique ==
    \A i, j \in 1..Len(notes) : i # j => notes[i].id # notes[j].id

\* C5: every store operation runs entirely under the one mutex, its file write
\* included, and no two operations are ever inside the store at once.
C5_MutualExclusion ==
    /\ \A p \in Procs : Holding(p) => lock = p
    /\ \A p, q \in Procs : (Holding(p) /\ Holding(q)) => p = q

\* A worker writes the file while the other worker waits for the lock.
W_C5 ==
    \E p, q \in Procs : p # q /\ pc[p] = "write" /\ file.data # <<>> /\ pc[q] = "wait"

\* C6: while the lock is held its holder never waits for console input.
C6_NoInputWhileLocked ==
    \A p \in Procs : lock = p => pc[p] # "prompt"

\* C7: the lock is released on every exit path: whoever is not inside a handler
\* body does not hold it, it is free when nobody is, and a waiting operation can
\* then take it.
C7_LockReleased ==
    /\ \A p \in Procs : ~Holding(p) => lock # p
    /\ (\A p \in Procs : ~Holding(p)) => lock = None
    /\ \A p \in Procs :
        (pc[p] = "wait" /\ \A q \in Procs : ~Holding(q)) => ENABLED Lock(p)

\* A create has failed with an I/O error, its handler has returned, and the lock is
\* free again.
W_C7 ==
    /\ startedEmpty
    /\ Len(notes) > nCreateOk
    /\ \A p \in Procs : pc[p] = "idle"
    /\ lock = None

\* C8: during save_notes and after it, the file is the complete document it held
\* before or the complete new document.
C8_FileNeverPartial ==
    \A p \in Procs :
        (Saving(p) \/ Saved(p)) =>
            \/ file = prevDoc
            \/ file = FileOf(to_writer_pretty(notes))

\* C9: a created note has created_at = updated_at; updated_at >= created_at for
\* every note; an update leaves created_at alone and does not decrease updated_at.
C9_Timestamps ==
    /\ \A i \in 1..Len(notes) : notes[i].updated_at >= notes[i].created_at
    /\ \A p \in Procs :
        (Succeeded(p) /\ StoreMethod(p) = "add_note") =>
            res[p].val[1].created_at = res[p].val[1].updated_at
    /\ \A p \in Procs :
        (Succeeded(p) /\ StoreMethod(p) = "update_note") =>
            LET new == res[p].val[1]
                old == snap[position(snap, new.id)]
            IN  /\ new.created_at = old.created_at
                /\ new.updated_at >= old.updated_at

\* Ids are numbered as they are generated, so a collection in creation order has
\* its ids in non-decreasing order (equal only for notes that came from the file).
InCreationOrder(ns) ==
    \A i, j \in 1..Len(ns) : i < j => ns[i].id <= ns[j].id

C10_Step ==
    /\ InCreationOrder(notes) => InCreationOrder(notes')
    /\ notes' # notes =>
        \E p \in Procs :
            /\ lock = p
            /\ \/ /\ StoreMethod(p) = "add_note"
                  /\ Len(notes') = Len(notes) + 1
                  /\ SubSeq(notes', 1, Len(notes)) = notes
               \/ /\ StoreMethod(p) \in {"delete_note", "delete_note_by_index"}
                  /\ Len(notes') < Len(notes)
                  /\ \E keep \in SUBSET (1..Len(notes)) :
                        /\ Cardinality(keep) = Len(notes')
                        /\ \A i \in keep :
                            notes'[Cardinality({k \in keep : k <= i})] = notes[i]
               \/ /\ StoreMethod(p) = "update_note"
                  /\ Len(notes') = Len(notes)
                  /\ \A i \in 1..Len(notes) : notes'[i].id = notes[i].id

Returned(m) == pc[Api] = "ret" /\ op[Api] = m

\* C11: right after add_note has returned Ok(x), get_note(x.id) is Some(x), equal to
\* x in every field, and x is the last element of list_notes().
C11_CreateThenGet ==
    (Returned("add_note") /\ res[Api].tag = "Ok") =>
        LET x == res[Api].val[1]
            all == list_notes(notes)
        IN  /\ get_note(notes, x.id) = <<x>>
            /\ Len(all) > 0
            /\ all[Len(all)] = x

\* add_note has returned Ok to a store that already held notes.
W_C11 ==
    /\ Returned("add_note")
    /\ res[Api].tag = "Ok"
    /\ Len(notes) > 1

\* ------------------------------------------------------------------ C12
\* delete_note(id) has just returned Ok(true): get_note(id) is None.
C12_Gone ==
    (Returned("delete_note") /\ res[Api].tag = "OkTrue") =>
        get_note(notes, arg[Api].id) = <<>>

\* An id that get_note does not find is not found after the step either, whatever
\* the step is (an id handed out so far: the deleted ones are among them).
C12_StaysGone ==
    \A id \in Ids : get_note(notes, id) = <<>> => get_note(notes', id) = <<>>

SameLetter(a, b) == a = b \/ {a, b} = {"a", "A"} \/ {a, b} = {"b", "B"}

\* q occurs in s as a run of consecutive characters, case ignored.
OccursIn(q, s) ==
    \E i \in 0..(Len(s) - Len(q)) : \A k \in 1..Len(q) : SameLetter(s[i + k], q[k])

Matching(ns, q) ==
    SelectSeq(ns, LAMBDA n : \/ OccursIn(q, n.title)
                             \/ OccursIn(q, n.content)
                             \/ \E k \in 1..Len(n.tags) : OccursIn(q, n.tags[k]))

\* The queries that differ from q in letter case only.
CaseVariants(q) ==
    {v \in [1..Len(q) -> {"a", "A", "b", "B"}] : \A k \in 1..Len(q) : SameLetter(v[k], q[k])}

C14_RoundTrip ==
    Succeeded(Api) => load_notes(file) = notes

\* ------------------------------------------------------------------ C15
\* Before any mutating call the file and the collection are those of construction.
AsConstructed == muts = 0

\* C15: loading never fails for the file's absence or content: with no file, or a
\* file that is no array of notes, the collection is empty after new; and after new
\* on a path with no file, one add_note that returned Ok followed by a fresh new on
\* that path gives exactly the created note.
C15_Loading ==
    /\ (AsConstructed /\ (~file.exists \/ ~from_reader(file.data).ok)) => notes = <<>>
    /\ (Returned("add_note") /\ res[Api].tag = "Ok" /\ prevDoc = NoFile /\ snap = <<>>) =>
            load_notes(file) = res[Api].val

\* ------------------------------------------------------------------ C16
\* C16: in every state the front-ends can reach, every note of the collection has a
\* non-empty title: a console command or an HTTP request (POST /api/notes,
\* PUT /api/notes/{id}) with an empty title stores nothing.
C16_TitlesNonEmpty ==
    \A i \in 1..Len(notes) : notes[i].title # <<>>

\* ------------------------------------------------------------------ C17
\* C17: delete_note_by_index(i) with 0 <= i < count removes exactly the note at
\* position i: one note fewer, the others unchanged and in order.  With i >= count
\* it returns the index error, never reaches save_notes, and leaves the collection
\* and the file as they were.
C17_DeleteByIndex ==
    /\ (op[Api] = "delete_note_by_index" /\ Saving(Api)) => arg[Api].index < Len(snap)
    /\ Returned("delete_note_by_index") =>
          LET i == arg[Api].index
          IN  /\ i < Len(snap) => res[Api].tag \in {"Ok", "Err"}
              /\ (i < Len(snap) /\ res[Api].tag = "Ok") =>
                    /\ Len(notes) = Len(snap) - 1
                    /\ \A j \in 1..Len(notes) :
                          notes[j] = IF j <= i THEN snap[j] ELSE snap[j + 1]
              /\ i >= Len(snap) =>
                    /\ res[Api].tag = "ErrInvalidInput"
                    /\ notes = snap
                    /\ file = prevDoc

\* delete_note_by_index has returned the index error on a store that holds notes.
W_C17 ==
    /\ Returned("delete_note_by_index")
    /\ res[Api].tag = "ErrInvalidInput"
    /\ notes # <<>>

\* ------------------------------------------------------------------ C18
\* The running call is update_note or delete_note for an id no note had.
AbsentId ==
    /\ op[Api] \in {"update_note", "delete_note"}
    /\ get_note(snap, arg[Api].id) = <<>>

\* C18: update_note with an id no note has returns Ok(None) and delete_note returns
\* Ok(false); the collection (every updated_at included) and the file are as they
\* were, and save_notes is not called, so neither can return an I/O error.
C18_AbsentIdChangesNothing ==
    /\ AbsentId => ~Saving(Api)
    /\ (AbsentId /\ pc[Api] = "ret") =>
            /\ res[Api].tag = IF op[Api] = "update_note" THEN "OkNone" ELSE "OkFalse"
            /\ notes = snap
            /\ file = prevDoc

\* update_note has returned Ok(None) on a store that holds notes.
W_C18 ==
    /\ Returned("update_note")
    /\ res[Api].tag = "OkNone"
    /\ notes # <<>>

\* ------------------------------------------------------------------ C19
\* The provided value of an optional field, or the previous value when it is absent.
Provided(field, previous) == IF field = <<>> THEN previous ELSE field[1]

\* C19: update_note on an id that exists replaces exactly the fields provided, leaves
\* an absent field at its previous value, sets updated_at to the time of the call
\* even when the three fields are absent, and changes nothing else: not the id, not
\* created_at, not any other note.
C19_UpdateFrame ==
    (Returned("update_note") /\ res[Api].tag = "OkSome") =>
        LET a == arg[Api]
            i == position(snap, a.id)
        IN  /\ i # 0
            /\ Len(notes) = Len(snap)
            /\ notes[i].title = Provided(a.title, snap[i].title)
            /\ notes[i].content = Provided(a.content, snap[i].content)
            /\ notes[i].tags = Provided(a.tags, snap[i].tags)
            /\ notes[i].updated_at = clock
            /\ notes[i].id = snap[i].id
            /\ notes[i].created_at = snap[i].created_at
            /\ \A j \in 1..Len(notes) : j # i => notes[j] = snap[j]
            /\ res[Api].val = <<notes[i]>>

\* An update with the three fields absent has returned Ok(Some) and the note's
\* updated_at has changed.
W_C19 ==
    /\ Returned("update_note")
    /\ res[Api].tag = "OkSome"
    /\ arg[Api].title = <<>> /\ arg[Api].content = <<>> /\ arg[Api].tags = <<>>
    /\ notes # snap

\* ------------------------------------------------------------------ C20
\* C20: the running HTTP server serves GET /api/stats: the request goes to the stats
\* handler and is answered with a success envelope whose data hold total_notes, the
\* size of the collection, and total_tags, the number of distinct tags.
C20_StatsServed ==
    phase = "web" =>
        /\ Dispatch("GET /api/stats") = "get_stats"
        /\ StatsResponse.status = 200
        /\ StatsResponse.success
        /\ StatsResponse.data.total_notes = notes_count(notes)
        /\ StatsResponse.data.total_tags =
                Cardinality({t \in {<<>>, T_A, T_ab} :
                                \E i \in 1..Len(notes) : \E k \in 1..Len(notes[i].tags) :
                                    notes[i].tags[k] = t})

\* ------------------------------------------------------------------ C21
\* The methods that take &self.
ReadMethods ==
    {"list_notes", "get_note", "get_note_by_index", "search_notes", "notes_count"}

\* C21: list_notes, get_note, get_note_by_index, search_notes and notes_count never
\* call save_notes and leave the collection (contents, order, every updated_at) and
\* the file as they were, for every argument: an absent id, an out-of-range index
\* and the empty query included.
C21_ReadsPure ==
    op[Api] \in ReadMethods =>
        /\ ~Saving(Api)
        /\ pc[Api] = "ret" =>
                /\ res[Api].tag = "Ok"
                /\ notes = snap
                /\ file = prevDoc

\* get_note_by_index has returned None for an out-of-range index on a store that
\* holds notes.
W_C21 ==
    /\ Returned("get_note_by_index")
    /\ notes # <<>>
    /\ arg[Api].index >= Len(notes)
    /\ res[Api].val = <<>>

\* ------------------------------------------------------------------ C22
\* A console operation is in progress.
ConsoleBusy == pc[Console] # "idle"

\* An HTTP handler is in progress.
HttpBusy == \E h \in Http : pc[h] # "idle"

\* Console operations belong to cli_mode, HTTP handlers to the running server.
C22_Separate ==
    /\ ~(ConsoleBusy /\ HttpBusy)
    /\ ConsoleBusy => phase = "cli"
    /\ HttpBusy => phase = "web"

\* The server starts at the start of the program or after the y/n question that
\* follows the return of cli_mode; once it runs, cli_mode never runs again.
C22_Order ==
    /\ (phase # "web" /\ phase' = "web") => phase = "ask"
    /\ phase' = "ask" => phase \in {"cli", "ask"}
    /\ phase' = "cli" => phase = "cli"

\* C22: a console operation and an HTTP handler are never in progress at the same
\* time: the server is started only after cli_mode has returned, or at once in web
\* mode, so a run is a phase of console operations followed by a phase of HTTP
\* requests, concurrent with one another, on the same store.
C22_ConsoleThenHttp == [][C22_Separate' /\ C22_Order]_vars

\* Two HTTP handlers are in progress at once on a store in which a create has
\* succeeded.
W_C22 ==
    /\ phase = "web"
    /\ \A h \in Http : pc[h] # "idle"
    /\ nCreateOk > 0

\* ------------------------------------------------------------------ C23
\* The file that exists and is no array of notes.
JunkFile == FileOf(<<Junk>>)

\* A call that began on the unparsable file and has changed it is a mutating method
\* whose id or index names a note (prevDoc is the file when the call began).
C23_Untouched ==
    (prevDoc = JunkFile /\ file # JunkFile) =>
        /\ op[Api] \in MutOps
        /\ ~AbsentId
        /\ op[Api] = "delete_note_by_index" => arg[Api].index < Len(snap)

\* The first mutating method to reach save_notes on the unparsable file has returned
\* success: the file holds the collection and nothing else.
C23_Replaced ==
    (Succeeded(Api) /\ prevDoc = JunkFile) =>
        /\ file.exists
        /\ \A i \in 1..Len(file.data) : file.data[i] # Junk
        /\ from_reader(file.data) = [ok |-> TRUE, val |-> notes]

\* C23: after new on a file that exists and cannot be parsed, the file is left
\* untouched until the first mutating operation that reaches save_notes; once that
\* operation has succeeded the file holds only the notes of the collection built
\* since the load, the previous content being gone; reads and operations on an
\* absent id or an out-of-range index never overwrite it.
C23_UnparsableFile == C23_Untouched /\ C23_Replaced

====
